---- MODULE Spec2Model ----
(***************************************************************************)
(* The compliance-checking notebook lantern.ipynb as a state machine.      *)
(*                                                                         *)
(* The state is the notebook kernel's namespace (the names the code cells  *)
(* bind), the database session (connection, cursors, transaction, the      *)
(* table compliance_documents) and the position in the cell sequence.      *)
(* One action per code cell, and one per iteration of the two loops that   *)
(* call an external service (the similarity query, the LLM).               *)
(*                                                                         *)
(* A cell that raises stops at the raising statement and keeps the         *)
(* bindings made before it; the next cell is then either run all the same  *)
(* (cells run one at a time) or the run stops there ("Run All").           *)
(*                                                                         *)
(* Four specifications:                                                    *)
(*   Spec          the notebook from its first code cell;                  *)
(*   SpecRetrieval the retrieval cell over every table and query list of   *)
(*                 the bounds, beside the embedding job;                   *)
(*   SpecPipeline  the retrieval and judgment cells over every embedded    *)
(*                 table, query list, LLM and row type of the bounds;      *)
(*   SpecJudge     the judgment cell for one query over every chunk list   *)
(*                 and every LLM response of the bounds.                   *)
(*                                                                         *)
(* Rows come in two types: "tuple", which is what the cursors of the       *)
(* notebook's connection return, and "dict", which is what the signature   *)
(* of check_compliance (List[Dict]) declares.  Spec and SpecRetrieval have *)
(* tuples only; SpecPipeline and SpecJudge take both.                      *)
(*                                                                         *)
(* A statement sent to the database either runs or raises; once one has    *)
(* raised, the transaction is failed and every later statement of the      *)
(* session raises too, since no cell rolls back.  A failing connect, a     *)
(* failing read_csv and a failing LLM request are not modelled.            *)
(***************************************************************************)
EXTENDS Integers, Sequences, FiniteSets, TLC

VARIABLES
    pc,                 \* the cell (or loop) that runs next, "done", "aborted"
    last,               \* the cell whose step ran last, "none" before the first
    error,              \* the exception that step raised, or "none"
    ns,                 \* names bound in the kernel namespace by cells 2 and 5
    ingestStatus,       \* status code of the ingest response (0: no request yet)
    chunkStatus,        \* status code of the chunk response (0: no request yet)
    chunks,             \* value of the name chunks once bound
    docChunks,          \* chunks the chunking service holds for the ingested document
    conn,               \* the connection: "unbound", "open", "closed"
    cur,                \* cell 8's cursor
    cursor,             \* cell 17's cursor
    txAborted,          \* the session's transaction is in the failed state
    jobRegistered,      \* add_embedding_job has been called on the table
    table,              \* rows of compliance_documents, in heap order
    rowKind,            \* type of the rows fetchall returns: "tuple" or "dict"
    query_list,         \* df['text'].tolist()
    ri,                 \* queries the retrieval loop has been through
    similar_chunks,     \* dict: query -> fetched rows, in insertion order
    ji,                 \* items of similar_chunks the judgment loop has been through
    compliance_results, \* dict: query -> bool, in insertion order
    llm,                \* the LLM: query -> content of the completion
    llmCalls,           \* chat completions requested so far
    printed             \* the queries printed under "Non-compliant queries:"

vars == <<pc, last, error, ns, ingestStatus, chunkStatus, chunks, docChunks, conn, cur,
          cursor, txAborted, jobRegistered, table, rowKind, query_list, ri,
          similar_chunks, ji, compliance_results, llm, llmCalls, printed>>

(***************************************************************************)
(* Bounds of the model.                                                    *)
(***************************************************************************)
MaxRows == 4        \* rows of compliance_documents, chunks of the document
MaxQueries == 3     \* length of query_list
MaxLookups == 2     \* length of query_list where the embedding job runs beside the loop
MaxPad == 1         \* whitespace characters on each side of an LLM response

(***************************************************************************)
(* Program constants.                                                      *)
(***************************************************************************)
HTTP_OK == 200      \* response.status_code == 200
K == 3              \* LIMIT 3
PromptSlots == 3    \* chunks[0], chunks[1], chunks[2]
NULL == 0           \* a vector the embedding job has not filled yet

Min(a, b) == IF a <= b THEN a ELSE b

(***************************************************************************)
(* Text.  A string is a sequence of characters, so that strip() and        *)
(* lower() are computed and not assumed.                                   *)
(***************************************************************************)
Whitespace == {" ", "\n", "\t"}

LowerOf == [c \in {"T", "R", "U", "E", "F", "A", "L", "S", "M"} |->
               CASE c = "T" -> "t" [] c = "R" -> "r" [] c = "U" -> "u"
                 [] c = "E" -> "e" [] c = "F" -> "f" [] c = "A" -> "a"
                 [] c = "L" -> "l" [] c = "S" -> "s" [] c = "M" -> "m"]

\* str.lower()
lower(s) == [i \in DOMAIN s |-> IF s[i] \in DOMAIN LowerOf THEN LowerOf[s[i]] ELSE s[i]]

RECURSIVE lstrip(_)
lstrip(s) == IF s # <<>> /\ Head(s) \in Whitespace THEN lstrip(Tail(s)) ELSE s

RECURSIVE rstrip(_)
rstrip(s) ==
    IF s # <<>> /\ s[Len(s)] \in Whitespace THEN rstrip(SubSeq(s, 1, Len(s) - 1)) ELSE s

\* strip() that forgets the trailing whitespace
StripLeadingOnly(s) == lstrip(s)

\* str.strip()
strip(s) == rstrip(lstrip(s))

TrueText == <<"t", "r", "u", "e">>

\* content.strip().lower() == 'true'
ParseVerdict(content) == lower(strip(content)) = TrueText

(***************************************************************************)
(* Python dicts, which keep insertion order: a sequence of [k, v] items.   *)
(***************************************************************************)
DictKeys(d) == {d[i].k : i \in DOMAIN d}

\* a dict that adds an item on every assignment, also for a key it holds
DictAppend(d, key, val) == Append(d, [k |-> key, v |-> val])

\* d[key] = val
DictSet(d, key, val) ==
    IF key \in DictKeys(d)
    THEN [i \in DOMAIN d |-> IF d[i].k = key THEN [k |-> key, v |-> val] ELSE d[i]]
    ELSE Append(d, [k |-> key, v |-> val])

(***************************************************************************)
(* Inputs from outside the notebook.                                       *)
(***************************************************************************)
HttpStatuses == {200, 201, 404, 500}

Queries == {"qa", "qb"}

\* df['text'].tolist(): any list of texts, repeats included
QueryListsTo(max) == UNION {[1..n -> Queries] : n \in 0..max}

QueryLists == QueryListsTo(MaxQueries)

\* Completions of an LLM told to answer only 'True' or 'False'.
ShortAnswers == {<<"T", "r", "u", "e">>, <<"F", "a", "l", "s", "e">>}

\* Every upper/lower-case spelling of "true".
TrueSpellings ==
    {[i \in 1..4 |-> IF up[i] THEN <<"T", "R", "U", "E">>[i] ELSE TrueText[i]] :
        up \in [1..4 -> BOOLEAN]}

OtherAnswers == {<<>>,
                 <<"F", "a", "l", "s", "e">>,
                 <<"f", "a", "l", "s", "e">>,
                 <<"M", "a", "y", "b", "e">>,
                 <<"t", "r", " ", "u", "e">>,
                 <<"t", "r", "u", "e", "e">>,
                 <<"t", "r", "u">>}

Pads == UNION {[1..n -> {" ", "\n"}] : n \in 0..MaxPad}

\* What the LLM may answer: a word, with whitespace around it.
Responses == {l \o w \o r : l \in Pads, w \in TrueSpellings \cup OtherAnswers, r \in Pads}

(***************************************************************************)
(* The table and the similarity query.  A row's vector is NULL until the   *)
(* embedding job fills it.  Embeddings are points of a line, which is      *)
(* enough to order rows by distance and to have ties.                      *)
(***************************************************************************)
\* the vector the embedding job writes for a row
Vec(id) == id

\* openai_embedding('openai/text-embedding-3-small', query)
Embed == [q \in Queries |-> IF q = "qa" THEN 2 ELSE 4]

\* vector <-> embedding
Dist(v, e) == (v - e) * (v - e)

\* ORDER BY ... ASC: NULL distances sort last, equal distances in any order
Before(r1, r2, q) ==
    IF r1.embedded
    THEN ~r2.embedded \/ Dist(Vec(r1.id), Embed[q]) <= Dist(Vec(r2.id), Embed[q])
    ELSE ~r2.embedded

\* the query without its LIMIT
ResultLenNoLimit(n) == n

\* LIMIT 3
ResultLen(n) == Min(K, n)

\* SELECT id, vector
SelectRow(r) == [id |-> r.id, vector |-> IF r.embedded THEN Vec(r.id) ELSE NULL]

\* How the server runs the query: a scan of the heap followed by a sort, or a
\* scan of a vector index, which holds no entry for a NULL vector.
Plans == {"seq", "index"}

\* cursor.execute(SELECT ... ORDER BY ... LIMIT 3); cursor.fetchall()
QueryResults(t, q, plan) ==
    LET cand == {i \in DOMAIN t : plan = "seq" \/ t[i].embedded}
        n == ResultLen(Cardinality(cand))
        sorted(s) ==
            /\ \A a, b \in 1..n : a < b => s[a] # s[b] /\ Before(t[s[a]], t[s[b]], q)
            /\ \A j \in cand : (\A a \in 1..n : s[a] # j) =>
                                   \A a \in 1..n : Before(t[s[a]], t[j], q)
    IN  {[a \in 1..n |-> SelectRow(t[s[a]])] : s \in {x \in [1..n -> cand] : sorted(x)}}

\* Tables of the bounds: ids 1..n in insertion order. The embedding job takes
\* the rows in that order, so the first m are embedded and the rest pending.
Tables ==
    UNION {{[i \in 1..n |-> [id |-> i, chunk |-> i, embedded |-> i <= m]] :
               m \in 0..n} : n \in 0..MaxRows}

\* The tables the embedding job has finished with.
EmbeddedTables == {t \in Tables : \A i \in DOMAIN t : t[i].embedded}

(***************************************************************************)
(* check_compliance                                                        *)
(***************************************************************************)
\* Building the prompt: chunks[0]['id'], chunks[1]['id'], chunks[2]['id'] in turn.
\* chunks[i] raises IndexError past the end of the list; ['id'] raises TypeError
\* on a tuple.
PromptError(chunksArg, kind) ==
    LET bad == {i \in 1..PromptSlots : i > Len(chunksArg) \/ kind = "tuple"}
        first == CHOOSE i \in bad : \A j \in bad : i <= j
    IN  IF bad = {} THEN "none"
        ELSE IF first > Len(chunksArg) THEN "IndexError" ELSE "TypeError"

\* The call's outcome: the exception it raises, whether it asked the LLM, and
\* the value it returns. content is what the LLM answers for this prompt.
check_compliance(query, chunksArg, kind, content) ==
    LET pe == PromptError(chunksArg, kind)
    IN  IF pe # "none"
        THEN [raised |-> pe, called |-> FALSE, verdict |-> FALSE]
        ELSE [raised |-> "none", called |-> TRUE, verdict |-> ParseVerdict(content)]

\* for query, is_compliant in compliance_results.items(): if not is_compliant: print
RECURSIVE NonCompliant(_)
NonCompliant(d) ==
    IF d = <<>> THEN <<>>
    ELSE IF ~Head(d).v THEN <<Head(d).k>> \o NonCompliant(Tail(d))
    ELSE NonCompliant(Tail(d))

(***************************************************************************)
(* The cells.                                                              *)
(***************************************************************************)
\* Where the run goes after a step that raised err: on to the next cell, or it
\* stops.
NextPc(err, next) == IF err = "none" THEN {next} ELSE {next, "aborted"}

\* cell 2: the ingest request
IngestCell ==
    /\ last' = "ingest"
    /\ pc = "ingest"
    /\ \E status \in HttpStatuses :
          /\ ingestStatus' = status
          /\ IF status = HTTP_OK
             THEN \* result is a dict: result.markdown_url raises
                  /\ ns' = ns \cup {"result"}
                  /\ error' = "AttributeError"
             ELSE /\ ns' = ns
                  /\ error' = "none"
    /\ pc' \in NextPc(error', "chunk")
    /\ UNCHANGED <<chunkStatus, chunks, docChunks, conn, cur, cursor, txAborted,
                   jobRegistered, table, rowKind, query_list, ri, similar_chunks, ji,
                   compliance_results, llm, llmCalls, printed>>

\* cell 5: the chunk request
ChunkCell ==
    /\ last' = "chunk"
    /\ pc = "chunk"
    /\ \E status \in HttpStatuses :
          IF "markdown_url" \notin ns
          THEN \* payload = {"url": markdown_url} raises before the request
               /\ error' = "NameError"
               /\ UNCHANGED <<ns, chunkStatus, chunks>>
          ELSE /\ chunkStatus' = status
               /\ chunks' = <<>>
               /\ IF status = HTTP_OK
                  THEN \* a Response has no attribute chunks
                       /\ ns' = ns \cup {"chunks", "result"}
                       /\ error' = "AttributeError"
                  ELSE /\ ns' = ns \cup {"chunks"}
                       /\ error' = "none"
    /\ pc' \in NextPc(error', "connect")
    /\ UNCHANGED <<ingestStatus, docChunks, conn, cur, cursor, txAborted,
                   jobRegistered, table, rowKind, query_list, ri, similar_chunks, ji,
                   compliance_results, llm, llmCalls, printed>>

\* cell 8: connect, CREATE TABLE, commit
ConnectCell ==
    /\ last' = "connect"
    /\ pc = "connect"
    /\ conn' = "open"
    /\ cur' = "open"
    /\ \E created \in BOOLEAN :
          IF created
          THEN /\ table' = <<>>
               /\ txAborted' = FALSE
               /\ error' = "none"
          ELSE \* the statement fails (the table exists): no commit
               /\ table' = table
               /\ txAborted' = TRUE
               /\ error' = "DatabaseError"
    /\ pc' \in NextPc(error', "embedjob")
    /\ UNCHANGED <<ns, ingestStatus, chunkStatus, chunks, docChunks, cursor,
                   jobRegistered, rowKind, query_list, ri, similar_chunks, ji,
                   compliance_results, llm, llmCalls, printed>>

\* cell 10: enable the daemon, register the embedding job, commit
EmbedJobCell ==
    /\ last' = "embedjob"
    /\ pc = "embedjob"
    /\ \E ok \in BOOLEAN :
          IF ok /\ ~txAborted
          THEN /\ jobRegistered' = TRUE
               /\ txAborted' = FALSE
               /\ error' = "none"
          ELSE /\ jobRegistered' = jobRegistered
               /\ txAborted' = TRUE
               /\ error' = "DatabaseError"
    /\ pc' \in NextPc(error', "load_csv")
    /\ UNCHANGED <<ns, ingestStatus, chunkStatus, chunks, docChunks, conn, cur, cursor,
                   table, rowKind, query_list, ri, similar_chunks, ji,
                   compliance_results, llm, llmCalls, printed>>

\* cell 14: read the data set
LoadCsvCell ==
    /\ last' = "load_csv"
    /\ pc = "load_csv"
    /\ query_list' \in QueryLists
    /\ error' = "none"
    /\ pc' = "retrieve_begin"
    /\ UNCHANGED <<ns, ingestStatus, chunkStatus, chunks, docChunks, conn, cur, cursor,
                   txAborted, jobRegistered, table, rowKind, ri, similar_chunks, ji,
                   compliance_results, llm, llmCalls, printed>>

\* cell 17, before the loop
RetrieveBegin ==
    /\ last' = "retrieve_begin"
    /\ pc = "retrieve_begin"
    /\ cursor' = "open"
    /\ similar_chunks' = <<>>
    /\ ri' = 0
    /\ error' = "none"
    /\ pc' = "retrieve"
    /\ UNCHANGED <<ns, ingestStatus, chunkStatus, chunks, docChunks, conn, cur,
                   txAborted, jobRegistered, table, rowKind, query_list, ji,
                   compliance_results, llm, llmCalls, printed>>

\* when an iteration of the retrieval loop may run
RetrieveGuard == pc = "retrieve"

\* cell 17, one iteration of the loop
RetrieveStep ==
    /\ last' = "retrieve"
    /\ RetrieveGuard
    /\ ri < Len(query_list)
    /\ LET query == query_list[ri + 1] IN
       \E ok \in BOOLEAN :
          IF ok /\ ~txAborted
          THEN /\ \E plan \in Plans :
                  \E results \in QueryResults(table, query, plan) :
                     similar_chunks' = DictSet(similar_chunks, query, results)
               /\ ri' = ri + 1
               /\ error' = "none"
               /\ pc' = pc
               /\ UNCHANGED txAborted
          ELSE \* execute raises: the loop and the cell end here
               /\ txAborted' = TRUE
               /\ error' = "DatabaseError"
               /\ pc' \in NextPc(error', "judge")
               /\ UNCHANGED <<similar_chunks, ri>>
    /\ UNCHANGED <<ns, ingestStatus, chunkStatus, chunks, docChunks, conn, cur, cursor,
                   jobRegistered, table, rowKind, query_list, ji,
                   compliance_results, llm, llmCalls, printed>>

\* cell 17, after the loop: cursor.close()
RetrieveEnd ==
    /\ last' = "retrieve_end"
    /\ pc = "retrieve"
    /\ ri = Len(query_list)
    /\ cursor' = "closed"
    /\ error' = "none"
    /\ pc' = "judge"
    /\ UNCHANGED <<ns, ingestStatus, chunkStatus, chunks, docChunks, conn, cur,
                   txAborted, jobRegistered, table, rowKind, query_list, ri,
                   similar_chunks, ji, compliance_results, llm, llmCalls, printed>>

\* the judgment taken into the retrieval loop
JudgeGuardEarly == pc \in {"retrieve", "judge"}

\* when an iteration of the judgment loop may run: in cell 19, after cell 17
JudgeGuard == pc = "judge"

\* cell 19, one iteration of the loop over similar_chunks.items()
JudgeStep ==
    /\ last' = "judge"
    /\ JudgeGuard
    /\ ji < Len(similar_chunks)
    /\ LET item == similar_chunks[ji + 1]
           out == check_compliance(item.k, item.v, rowKind, llm[item.k])
       IN  /\ llmCalls' = IF out.called THEN llmCalls + 1 ELSE llmCalls
           /\ error' = out.raised
           /\ IF out.raised = "none"
              THEN /\ compliance_results' = DictSet(compliance_results, item.k, out.verdict)
                   /\ ji' = ji + 1
                   /\ pc' = pc
              ELSE \* the last cell raised: the run ends with the error
                   /\ pc' = "aborted"
                   /\ UNCHANGED <<compliance_results, ji>>
    /\ UNCHANGED <<ns, ingestStatus, chunkStatus, chunks, docChunks, conn, cur, cursor,
                   txAborted, jobRegistered, table, rowKind, query_list, ri,
                   similar_chunks, llm, printed>>

\* cell 19, after the loop: print the non-compliant queries
ReportCell ==
    /\ last' = "report"
    /\ pc = "judge"
    /\ ji = Len(similar_chunks)
    /\ printed' = NonCompliant(compliance_results)
    /\ error' = "none"
    /\ pc' = "done"
    /\ UNCHANGED <<ns, ingestStatus, chunkStatus, chunks, docChunks, conn, cur, cursor,
                   txAborted, jobRegistered, table, rowKind, query_list, ri,
                   similar_chunks, ji, compliance_results, llm, llmCalls>>

\* The embedding job registered by cell 10 fills the vector of one row. Only
\* the retrieval loop reads the table, so the job's later steps are left out.
EmbedRow ==
    /\ jobRegistered
    /\ pc \in {"retrieve_begin", "retrieve"}
    /\ \E i \in DOMAIN table :
          /\ ~table[i].embedded
          /\ \A j \in 1..(i - 1) : table[j].embedded
          /\ table' = [table EXCEPT ![i].embedded = TRUE]
    /\ UNCHANGED <<pc, last, error, ns, ingestStatus, chunkStatus, chunks, docChunks, conn,
                   cur, cursor, txAborted, jobRegistered, rowKind, query_list, ri,
                   similar_chunks, ji, compliance_results, llm, llmCalls, printed>>

(***************************************************************************)
(* Spec: the notebook, from its first code cell.  The notebook holds no    *)
(* INSERT, so the table it creates stays empty; psycopg2's default cursor  *)
(* returns rows as tuples.                                                 *)
(***************************************************************************)
Init ==
    /\ pc = "ingest"
    /\ last = "none"
    /\ error = "none"
    /\ ns = {}
    /\ ingestStatus = 0
    /\ chunkStatus = 0
    /\ chunks = <<>>
    /\ docChunks \in 0..MaxRows
    /\ conn = "unbound"
    /\ cur = "unbound"
    /\ cursor = "unbound"
    /\ txAborted = FALSE
    /\ jobRegistered = FALSE
    /\ table = <<>>
    /\ rowKind = "tuple"
    /\ query_list = <<>>
    /\ ri = 0
    /\ similar_chunks = <<>>
    /\ ji = 0
    /\ compliance_results = <<>>
    /\ llm \in [Queries -> ShortAnswers]
    /\ llmCalls = 0
    /\ printed = <<>>

Next ==
    \/ IngestCell
    \/ ChunkCell
    \/ ConnectCell
    \/ EmbedJobCell
    \/ LoadCsvCell
    \/ RetrieveBegin
    \/ RetrieveStep
    \/ RetrieveEnd
    \/ JudgeStep
    \/ ReportCell

Spec == Init /\ [][Next]_vars

(***************************************************************************)
(* SpecRetrieval: cell 17 on an open session, over every table and query   *)
(* list of the bounds, with the embedding job running beside it.           *)
(***************************************************************************)
InitRetrieval ==
    /\ pc = "retrieve_begin"
    /\ last = "none"
    /\ error = "none"
    /\ ns = {}
    /\ ingestStatus = 0
    /\ chunkStatus = 0
    /\ chunks = <<>>
    /\ docChunks = 0
    /\ conn = "open"
    /\ cur = "open"
    /\ cursor = "unbound"
    /\ txAborted = FALSE
    /\ jobRegistered = TRUE
    /\ table \in Tables
    /\ rowKind = "tuple"
    /\ query_list \in QueryListsTo(MaxLookups)
    /\ ri = 0
    /\ similar_chunks = <<>>
    /\ ji = 0
    /\ compliance_results = <<>>
    /\ llm = [q \in Queries |-> TrueText]
    /\ llmCalls = 0
    /\ printed = <<>>

NextRetrieval ==
    \/ RetrieveBegin
    \/ RetrieveStep
    \/ RetrieveEnd
    \/ EmbedRow

SpecRetrieval == InitRetrieval /\ [][NextRetrieval]_vars

(***************************************************************************)
(* SpecPipeline: cells 17 and 19 on an open session, once the embedding    *)
(* job has finished, over every such table, query list, LLM and row type   *)
(* of the bounds.                                                          *)
(***************************************************************************)
InitPipeline ==
    /\ pc = "retrieve_begin"
    /\ last = "none"
    /\ error = "none"
    /\ ns = {}
    /\ ingestStatus = 0
    /\ chunkStatus = 0
    /\ chunks = <<>>
    /\ docChunks = 0
    /\ conn = "open"
    /\ cur = "open"
    /\ cursor = "unbound"
    /\ txAborted = FALSE
    /\ jobRegistered = TRUE
    /\ table \in EmbeddedTables
    /\ rowKind \in {"tuple", "dict"}
    /\ query_list \in QueryLists
    /\ ri = 0
    /\ similar_chunks = <<>>
    /\ ji = 0
    /\ compliance_results = <<>>
    /\ llm \in [Queries -> ShortAnswers]
    /\ llmCalls = 0
    /\ printed = <<>>

NextPipeline ==
    \/ RetrieveBegin
    \/ RetrieveStep
    \/ RetrieveEnd
    \/ JudgeStep
    \/ ReportCell

SpecPipeline == InitPipeline /\ [][NextPipeline]_vars

(***************************************************************************)
(* SpecJudge: cell 19 for one query, over every chunk list and every LLM   *)
(* response of the bounds.                                                 *)
(***************************************************************************)
InitJudge ==
    /\ pc = "judge"
    /\ last = "none"
    /\ error = "none"
    /\ ns = {}
    /\ ingestStatus = 0
    /\ chunkStatus = 0
    /\ chunks = <<>>
    /\ docChunks = 0
    /\ conn = "open"
    /\ cur = "open"
    /\ cursor = "closed"
    /\ txAborted = FALSE
    /\ jobRegistered = TRUE
    /\ table = <<>>
    /\ rowKind \in {"tuple", "dict"}
    /\ query_list = <<"qa">>
    /\ ri = 1
    /\ \E n \in 0..MaxRows :
          similar_chunks = <<[k |-> "qa", v |-> [i \in 1..n |-> [id |-> i, vector |-> Vec(i)]]]>>
    /\ ji = 0
    /\ compliance_results = <<>>
    /\ \E content \in Responses : llm = [q \in Queries |-> content]
    /\ llmCalls = 0
    /\ printed = <<>>

NextJudge ==
    \/ JudgeStep
    \/ ReportCell

SpecJudge == InitJudge /\ [][NextJudge]_vars

(***************************************************************************)
(* The claims.                                                             *)
(***************************************************************************)
Range(f) == {f[i] : i \in DOMAIN f}

\* the value a dict holds for a key
DictGet(d, key) == d[CHOOSE i \in DOMAIN d : d[i].k = key].v

\* the item the judgment loop handed to check_compliance last
JudgedItem == similar_chunks[IF error = "none" THEN ji ELSE ji + 1]

\* content is a spelling of "true" in any case, with only whitespace around it
IsTrueWord(content) ==
    \E i \in 1..Len(content) :
       /\ i + 3 <= Len(content)
       /\ SubSeq(content, i, i + 3) \in TrueSpellings
       /\ \A j \in 1..Len(content) : (j < i \/ j > i + 3) => content[j] \in Whitespace

\* C1: in check_compliance, an LLM response that is not "true" after strip()
\* and lower() ends in a ParseError, and never in the verdict false.
C1_NonTrueIsParseError ==
    (last = "judge" /\ llmCalls > 0 /\ ~IsTrueWord(llm[JudgedItem.k]))
        => /\ error = "ParseError"
           /\ JudgedItem.k \notin DictKeys(compliance_results)

\* C2: check_compliance on fewer chunks than the prompt needs fails with a
\* DataError before any call to the LLM, and gives no verdict.
C2_TooFewChunksIsDataError ==
    (last = "judge" /\ Len(JudgedItem.v) < PromptSlots)
        => /\ error = "DataError"
           /\ llmCalls = 0
           /\ JudgedItem.k \notin DictKeys(compliance_results)

\* C3: the ingest and the chunk request fail with an ExternalServiceError, and
\* stop the workflow, on every status outside 200..299; on every status inside
\* they succeed and bind their result (markdown_url, chunks).
C3_Non2xxIsExternalServiceError ==
    /\ last = "ingest" =>
          IF ingestStatus \in 200..299
          THEN error = "none" /\ "markdown_url" \in ns
          ELSE error = "ExternalServiceError" /\ pc = "aborted"
    /\ (last = "chunk" /\ chunkStatus # 0) =>
          IF chunkStatus \in 200..299
          THEN error = "none" /\ "chunks" \in ns
          ELSE error = "ExternalServiceError" /\ pc = "aborted"

\* C4: when the run has ended, normally or by an error, neither the connection
\* nor a cursor opened on it is still open.
C4_ClosedOnEveryExit ==
    pc \in {"done", "aborted"} => conn # "open" /\ cur # "open" /\ cursor # "open"

\* C5 as stated: the retrieval of query i+1 begins only after query i has been
\* judged.
C5_JudgedBeforeNextRetrieval ==
    \A i \in 1..Len(query_list) :
       ri >= i + 1 => query_list[i] \in DictKeys(compliance_results)

\* C5 amended: execution is sequential in two phases. The retrieval loop takes
\* the queries one at a time in input order; no judgment begins before the
\* retrieval loop has ended (at the end of the list, or by raising); the
\* judgments then take the items of similar_chunks one at a time in order.
C5_TwoPhases ==
    /\ DictKeys(similar_chunks) = {query_list[i] : i \in 1..ri}
    /\ Len(compliance_results) = ji
    /\ \A i \in 1..ji : compliance_results[i].k = similar_chunks[i].k
    /\ (ji > 0 \/ last \in {"judge", "report"}) =>
          /\ pc \in {"judge", "done", "aborted"}
          /\ ri = Len(query_list) \/ txAborted

\* C5 witness: two queries retrieved, then both judged.
C5_Witness == ri = 2 /\ ji = 2 /\ ~txAborted

\* C6: no row whose vector is still NULL is part of a retrieval result.
C6_NoPendingRowRetrieved ==
    \A i \in DOMAIN similar_chunks :
       \A j \in DOMAIN similar_chunks[i].v : similar_chunks[i].v[j].vector # NULL

\* C7: when the first similarity query has been issued, every chunk of the
\* ingested document is a row of compliance_documents.
C7_ChunksLoadedBeforeRetrieval ==
    last \in {"retrieve", "retrieve_end"} =>
        \A c \in 1..docChunks : \E i \in DOMAIN table : table[i].chunk = c

\* C8: every stored retrieval result has at most k rows and at most as many as
\* the table has; on an empty table a retrieval step the database has run
\* stores the empty sequence for its query and raises nothing.
C8_ResultLengthBounded ==
    /\ \A i \in DOMAIN similar_chunks :
          /\ Len(similar_chunks[i].v) <= K
          /\ Len(similar_chunks[i].v) <= Len(table)
    /\ (table = <<>> /\ last = "retrieve" /\ ~txAborted) =>
          /\ error = "none"
          /\ ri >= 1
          /\ DictGet(similar_chunks, query_list[ri]) = <<>>

\* C8 witness: a result of k rows from a table of more than k, for the second
\* query of the list.
C8_Witness ==
    /\ Len(table) > K
    /\ ri = 2
    /\ \E i \in DOMAIN similar_chunks : Len(similar_chunks[i].v) = K

\* the texts of a list, each once, in the order they first appear
RECURSIVE FirstAppearances(_)
FirstAppearances(l) ==
    IF l = <<>> THEN <<>>
    ELSE LET rest == FirstAppearances(SubSeq(l, 1, Len(l) - 1))
         IN  IF l[Len(l)] \in Range(rest) THEN rest ELSE Append(rest, l[Len(l)])

\* C9: when the run has ended and nothing raised, compliance_results holds one
\* boolean for each text of query_list, and the non-compliant list is the texts
\* whose verdict is false, each once, in the order they first appear in
\* query_list.
C9_ReportMatchesVerdicts ==
    (pc = "done" /\ ~txAborted) =>
        /\ DictKeys(compliance_results) = Range(query_list)
        /\ \A i, j \in DOMAIN compliance_results :
              compliance_results[i].k = compliance_results[j].k => i = j
        /\ \A i \in DOMAIN compliance_results : compliance_results[i].v \in BOOLEAN
        /\ printed = SelectSeq(FirstAppearances(query_list),
                               LAMBDA q : ~DictGet(compliance_results, q))

\* C9 witness: a list of three texts with a repeat, one text compliant and the
\* other not.
C9_Witness ==
    /\ pc = "done"
    /\ ~txAborted
    /\ Len(query_list) = 3
    /\ Len(compliance_results) = 2
    /\ Len(printed) = 1

\* C10: the verdict check_compliance returns is true exactly when the LLM
\* response is "true" in some spelling of upper and lower case, with only
\* whitespace around it ("True", "TRUE ").
C10_VerdictIffTrueWord ==
    (last = "judge" /\ error = "none") =>
        /\ llmCalls = 1
        /\ JudgedItem.k \in DictKeys(compliance_results)
        /\ DictGet(compliance_results, JudgedItem.k) = IsTrueWord(llm[JudgedItem.k])

\* C10 witness: the response "TRUE " judged true.
C10_Witness ==
    /\ last = "judge"
    /\ error = "none"
    /\ llm["qa"] = <<"T", "R", "U", "E", " ">>
    /\ DictGet(compliance_results, "qa") = TRUE

====
